---- MODULE Spec2Model ----
(***************************************************************************)
(* A model of the CodeChrono extension core: the activity recorder         *)
(* (Tracker.handleActivity), the sync engine (Tracker.syncLoop with the    *)
(* ApiClient it calls) and the repository correlator (GitTracker).         *)
(*                                                                         *)
(* Everything runs on one JavaScript event loop: a handler runs without    *)
(* interruption up to its next await, so every action below is one such    *)
(* run-to-next-await segment, and the completion of an awaited store,      *)
(* network or subprocess call is the action that resumes the handler.      *)
(***************************************************************************)
EXTENDS Integers, Sequences, FiniteSets, TLC

VARIABLES
  clock,            \* the host's wall clock, Date.now(), in ms
  isTracking,       \* Tracker.isTracking
  subscribed,       \* Tracker.disposable holds live host subscriptions
  queue,            \* Tracker.queue
  lastActivityTime, \* Tracker.lastActivityTime
  syncTimer,        \* the timeout Tracker.syncTimer refers to is pending
  strayTimers,      \* pending timeouts whose handle was overwritten
  cycles,           \* the executions of syncLoop past its isTracking check
  activities,       \* local store: raw ActivityLog rows
  summaries,        \* local store: pending FileActivitySummary items
  commitRows,       \* local store: GitCommit rows
  nextCommitId,     \* local store: the next GitCommit identifier
  remoteAcked,      \* remote service: the items of the batches it acknowledged
  head,             \* repositories: the HEAD hash of each root
  branchName,       \* repositories: the current branch of each root ("" if none)
  gitRoots,         \* GitTracker.gitRoots, in insertion order
  currentCommit,    \* GitTracker.currentCommit
  currentBranch,    \* GitTracker.currentBranch
  watching,         \* the roots a file-system watcher is registered for
  gitInit,          \* the execution of watchGitChanges / initializeAllRoots
  tracks,           \* the executions of trackCommitChange
  hist,             \* history: what the last step of the tracker did
  count,            \* history: how often each bounded operation has happened, and
                    \* when the last event was accepted (not debounced) and queued
  activation        \* extension.ts: where activate() stands, the state of the
                    \* Database it opened, and whether an error message is shown

vars == <<clock, isTracking, subscribed, queue, lastActivityTime, syncTimer,
          strayTimers, cycles, activities, summaries, commitRows, nextCommitId,
          remoteAcked, head, branchName, gitRoots, currentCommit, currentBranch,
          watching, gitInit, tracks, hist, count, activation>>

recorderVars == <<queue, lastActivityTime>>
trackerVars  == <<isTracking, subscribed, syncTimer, strayTimers>>
storeVars    == <<activities, summaries, commitRows, nextCommitId>>
repoVars     == <<head, branchName>>
gitVars      == <<gitRoots, currentCommit, currentBranch, watching, gitInit, tracks>>

-----------------------------------------------------------------------------
(* Bounds of the model *)

StartDay == 10
MaxStarts == 2
MaxCycles == 2
MaxSlots == 2
MaxEvents == 3
MaxTicks == 2
MaxSyncEvents == 2
MaxSyncTicks == 1
MaxFaults == 1
MaxRepoChanges == 1
MaxTracks == 2
MaxTriggers == 2
MaxRoots == 3
MaxLookups == 2

(* Constants of the program *)

debounceInterval == 2000
maxIdleTime == 5 * 60 * 1000
DailyLimit == 30
RetentionDays == 7
FileLimit == 50
CommitLimit == 20
DayMs == 24 * 60 * 60 * 1000

Undefined == "undefined"
NoEditor == <<"no editor">>
NoPath == <<>>

Slots == 1..MaxSlots

-----------------------------------------------------------------------------
(* Dates.  new Date().toISOString().split("T")[0] is the calendar day of   *)
(* the clock; days are numbered, and a date string compares as its number. *)

DateOf(ms) == ms \div DayMs
Today == DateOf(clock)

(* The reference date without the step back by one day. *)
YesterdayStrToday == Today

(* const yesterday = new Date(); yesterday.setDate(yesterday.getDate() - 1) *)
YesterdayStr == Today - 1

(* A cleanup that keeps one day less than the retention window. *)
DeleteBeforeDateShort == Today - RetentionDays + 1

(* deleteBeforeDate.setDate(deleteBeforeDate.getDate() - 7) *)
DeleteBeforeDate == Today - RetentionDays

-----------------------------------------------------------------------------
(* The local store (Database).  Its operations are not part of src/; they  *)
(* are modelled from the specification's sections 3, 4.3 and 6.            *)

(* A FileActivitySummary is created for the inserted row; it is not        *)
(* mutated afterwards.                                                     *)
SummaryOf(log) ==
  [filePath |-> log.filePath, projectPath |-> log.projectPath,
   commitHash |-> log.commitHash, branch |-> log.branch,
   firstActivityAt |-> log.timestamp, lastActivityAt |-> log.timestamp,
   totalDuration |-> log.duration, activityCount |-> 1]

(* The rows of one calendar date, as one DailyActivitySummary. *)
DailyOf(rows, d) ==
  [date |-> d, rows |-> {r \in rows : DateOf(r.timestamp) = d}]

Dates(rows) == {DateOf(r.timestamp) : r \in rows}

(* getDailyAggregatedActivities(limit): the `limit` most recent daily      *)
(* aggregates.                                                             *)
getDailyAggregatedActivities(rows, limit) ==
  {DailyOf(rows, d) :
     d \in {e \in Dates(rows) :
              Cardinality({f \in Dates(rows) : f > e}) < limit}}

(* deleteActivitiesBeforeDate(date): what is left of the raw rows. *)
deleteActivitiesBeforeDate(rows, date) ==
  {r \in rows : DateOf(r.timestamp) >= date}

UpTo(S, limit) ==
  IF Cardinality(S) <= limit THEN S
  ELSE CHOOSE T \in SUBSET S : Cardinality(T) = limit

(* getAggregatedActivities(limit) *)
getAggregatedActivities(pending, limit) == UpTo(pending, limit)

(* deleteAggregatedActivities(batch): exactly those summaries. *)
deleteAggregatedActivities(pending, batch) == pending \ batch

(* getUnsyncedCommits(limit) *)
getUnsyncedCommits(rows, limit) == UpTo(rows, limit)

(* deleteCommits(ids) *)
deleteCommits(rows, ids) == {c \in rows : c.id \notin ids}

StoreOutcomes == {"ok", "throws"}

-----------------------------------------------------------------------------
(* The remote service, as the ApiClient sees it.  client.request resolves  *)
(* with the mutation's {success, message} payload or rejects (network      *)
(* error, HTTP error, GraphQL errors).                                     *)

RemoteOutcomes == {"success", "failure", "rejected"}

(* ApiClient.syncDailyStats / syncFileActivities / syncCommits: the        *)
(* boolean each returns for a non-empty batch, given the request's outcome.*)
syncDailyStats(outcome) == outcome # "rejected"
syncFileActivities(outcome) == outcome # "rejected"
syncCommits(outcome) == outcome # "rejected"

Fault(outcome) == IF outcome \in {"ok", "success"} THEN 0 ELSE 1

-----------------------------------------------------------------------------
(* Paths are sequences of characters; the host is POSIX (path.sep = "/").  *)

Sep == "/"
DirA == <<"/", "a">>
DirR == <<"/", "r">>
DirD == <<"/", "d">>
FileA == <<"/", "a", "/", "f">>
FileR == <<"/", "r", "/", "f">>
FileD == <<"/", "d", "/", "f">>

(* The host's workspace: its folders, and those holding a .git directory.  *)
WorkspaceFolders == <<DirA, DirR, DirD>>
GitDirs == {DirA, DirR}
AllRoots == GitDirs

StartsWith(str, prefix) ==
  Len(prefix) <= Len(str) /\ SubSeq(str, 1, Len(prefix)) = prefix

(* The lookup condition as a plain string-prefix test. *)
CoversAsPrefix(root, fsPath) == StartsWith(fsPath, root)

(* The condition of the three lookup loops of GitTracker. *)
Covers(root, fsPath) ==
  \/ fsPath = root
  \/ StartsWith(fsPath, Append(root, Sep))
  \/ StartsWith(fsPath, Append(root, "/"))

(* for (const root of this.gitRoots) { ... best = root ... } *)
RECURSIVE BestMatch(_, _, _)
BestMatch(roots, fsPath, best) ==
  IF roots = <<>> THEN best
  ELSE LET root == Head(roots) IN
       BestMatch(Tail(roots), fsPath,
                 IF Covers(root, fsPath) /\ (best = NoPath \/ Len(root) > Len(best))
                   THEN root ELSE best)

getGitRootForPath(fsPath) == BestMatch(gitRoots, fsPath, NoPath)

(* A lookup that falls back to the first known repository. *)
getActiveCommitOfWorkspace(fsPath) ==
  LET bestMatch == BestMatch(gitRoots, fsPath, NoPath) IN
  IF bestMatch # NoPath THEN currentCommit[bestMatch]
  ELSE IF gitRoots # <<>> THEN currentCommit[gitRoots[1]] ELSE Undefined

getActiveCommitForPath(fsPath) ==
  LET bestMatch == BestMatch(gitRoots, fsPath, NoPath) IN
  IF bestMatch # NoPath THEN currentCommit[bestMatch] ELSE Undefined

getActiveBranchForPath(fsPath) ==
  LET bestMatch == BestMatch(gitRoots, fsPath, NoPath) IN
  IF bestMatch # NoPath THEN currentBranch[bestMatch] ELSE Undefined

(* vscode.workspace.getWorkspaceFolder(doc.uri)?.uri.fsPath || "" *)
getWorkspaceFolder(fsPath) == BestMatch(WorkspaceFolders, fsPath, NoPath)

-----------------------------------------------------------------------------
(* The activity recorder: Tracker.handleActivity *)

Debounced(timeDiff) == timeDiff < debounceInterval

(* Duration with the idle threshold counted as activity. *)
DurationInclusive(last, timeDiff) ==
  IF last # 0 /\ timeDiff <= maxIdleTime THEN timeDiff ELSE 0

Duration(last, timeDiff) ==
  IF last # 0 /\ timeDiff < maxIdleTime THEN timeDiff ELSE 0

MakeLog(filePath, now, duration) ==
  LET gitRoot == getGitRootForPath(filePath) IN
  [projectPath |-> IF gitRoot # NoPath THEN gitRoot ELSE getWorkspaceFolder(filePath),
   filePath |-> filePath, language |-> "typescript",
   timestamp |-> now, duration |-> duration, editor |-> "vscode",
   commitHash |-> getActiveCommitForPath(filePath),
   branch |-> getActiveBranchForPath(filePath)]

(* handleActivity with lastActivityTime set before the debounce check. *)
ActivityEffectShifting(editor, now, last, q) ==
  LET timeDiff == now - last IN
  IF Debounced(timeDiff) THEN <<now, q>>
  ELSE IF editor = NoEditor THEN <<now, q>>
  ELSE <<now, Append(q, MakeLog(editor, now, Duration(last, timeDiff)))>>

(* What handleActivity leaves in lastActivityTime and the queue. *)
ActivityEffect(editor, now, last, q) ==
  LET timeDiff == now - last IN
  IF Debounced(timeDiff) THEN <<last, q>>
  ELSE IF editor = NoEditor THEN <<now, q>>
  ELSE <<now, Append(q, MakeLog(editor, now, Duration(last, timeDiff)))>>

(* An event handler that waits for the sync cycle in flight. *)
HandleActivityWhenIdle(editor) ==
  /\ subscribed
  /\ \A s \in 1..MaxSlots : cycles[s].pc = "none"
  /\ count.events < MaxEvents
  /\ LET eff == ActivityEffect(editor, clock, lastActivityTime, queue) IN
       /\ lastActivityTime' = eff[1]
       /\ queue' = eff[2]
  /\ UNCHANGED <<repoVars, gitVars, activation>>
  /\ hist' = [op |-> "handleActivity", editor |-> editor]
  /\ count' = [count EXCEPT
                !.events = @ + 1,
                !.accepted = IF count.events = 0 \/ clock - @ >= debounceInterval
                               THEN clock ELSE @,
                !.queuedAt = IF Len(queue') > Len(queue) THEN clock ELSE @]
  /\ UNCHANGED <<clock, trackerVars, cycles, storeVars, remoteAcked>>

HandleActivity(editor) ==
  /\ subscribed
  /\ count.events < MaxEvents
  /\ LET eff == ActivityEffect(editor, clock, lastActivityTime, queue) IN
       /\ lastActivityTime' = eff[1]
       /\ queue' = eff[2]
  /\ UNCHANGED <<repoVars, gitVars, activation>>
  /\ hist' = [op |-> "handleActivity", editor |-> editor]
  /\ count' = [count EXCEPT
                !.events = @ + 1,
                !.accepted = IF count.events = 0 \/ clock - @ >= debounceInterval
                               THEN clock ELSE @,
                !.queuedAt = IF Len(queue') > Len(queue) THEN clock ELSE @]
  /\ UNCHANGED <<clock, trackerVars, cycles, storeVars, remoteAcked>>

(* Time passes. *)
Tick(gap) ==
  /\ count.ticks < MaxTicks
  /\ clock' = clock + gap
  /\ UNCHANGED <<repoVars, gitVars, activation>>
  /\ hist' = [op |-> "tick"]
  /\ count' = [count EXCEPT !.ticks = @ + 1]
  /\ UNCHANGED <<recorderVars, trackerVars, cycles, storeVars, remoteAcked>>

-----------------------------------------------------------------------------
(* The sync engine: Tracker.startTracking, stopTracking and syncLoop.      *)
(* A cycle is an execution of syncLoop past its isTracking check; its pc   *)
(* names the call it is suspended on.                                      *)

IdleCycle ==
  [pc |-> "none", logs |-> <<>>, yesterday |-> 0, cutoff |-> 0, batch |-> {}]

InFlight == {s \in Slots : cycles[s].pc # "none"}
FreeSlot == CHOOSE s \in Slots \ InFlight : \A t \in Slots \ InFlight : s <= t

(* The code after the queue flush, up to the first await of the try block. *)
ToDaily(c) ==
  [c EXCEPT !.pc = "getDaily", !.logs = <<>>, !.yesterday = YesterdayStr]

(* A daily-stats phase that is followed by the commit phase. *)
ToFilesSkipped(c) == [c EXCEPT !.pc = "getCommits", !.batch = {}]

ToFiles(c) == [c EXCEPT !.pc = "getFiles", !.batch = {}]
ToCommits(c) == [c EXCEPT !.pc = "getCommits", !.batch = {}]

(* A syncLoop that empties the queue and saves none of its records. *)
EnterSyncLoopSkipping(q) == ToDaily(IdleCycle)

(* A syncLoop that copies the queue and leaves it as it is. *)
BeginCycleKeepingQueue ==
  /\ count.cycles < MaxCycles
  /\ InFlight # Slots
  /\ cycles' = [cycles EXCEPT ![FreeSlot] =
                  IF Len(queue) > 0
                    THEN [IdleCycle EXCEPT !.pc = "flush", !.logs = queue]
                    ELSE ToDaily(IdleCycle)]
  /\ queue' = queue

(* syncLoop from its isTracking check to its first await. *)
EnterSyncLoop(q) ==
  IF Len(q) > 0
    THEN [IdleCycle EXCEPT !.pc = "flush", !.logs = q]
    ELSE ToDaily(IdleCycle)

BeginCycle ==
  /\ count.cycles < MaxCycles
  /\ InFlight # Slots
  /\ cycles' = [cycles EXCEPT ![FreeSlot] = EnterSyncLoop(queue)]
  /\ queue' = <<>>

(* The end of syncLoop without the call of setTimeout. *)
RescheduleNever == UNCHANGED <<syncTimer, strayTimers>>

(* this.syncTimer = setTimeout(() => this.syncLoop(), this.syncInterval) *)
Reschedule ==
  /\ strayTimers' = strayTimers + (IF syncTimer THEN 1 ELSE 0)
  /\ syncTimer' = TRUE

EndCycle(s) ==
  /\ cycles' = [cycles EXCEPT ![s] = IdleCycle]
  /\ Reschedule
  /\ UNCHANGED <<isTracking, subscribed>>

Continue(s, c) ==
  /\ cycles' = [cycles EXCEPT ![s] = c]
  /\ UNCHANGED trackerVars

Charge(outcome) ==
  /\ count.faults + Fault(outcome) <= MaxFaults
  /\ count' = [count EXCEPT !.faults = @ + Fault(outcome)]

(* The call of insertActivity for a record of the queue, counted like the *)
(* other awaited calls and noted in the list of submitted records.         *)
Submit(outcome, log) ==
  /\ count.faults + Fault(outcome) <= MaxFaults
  /\ count' = [count EXCEPT !.faults = @ + Fault(outcome),
                            !.submitted = Append(@, log.timestamp)]

(* The body of startTracking after its isTracking check, with the call of *)
(* syncLoop that ends it.                                                  *)
BeginTracking ==
  /\ isTracking' = TRUE
  /\ subscribed' = TRUE
  /\ BeginCycle
  /\ count' = [count EXCEPT !.cycles = @ + 1, !.starts = @ + 1]
  /\ hist' = [op |-> "startTracking"]

StartTracking ==
  /\ ~isTracking
  /\ count.starts < MaxStarts
  /\ BeginTracking
  /\ UNCHANGED <<repoVars, gitVars, activation>>
  /\ UNCHANGED <<clock, lastActivityTime, syncTimer, strayTimers, storeVars,
                 remoteAcked>>

StopTracking ==
  /\ isTracking
  /\ isTracking' = FALSE
  /\ subscribed' = FALSE
  /\ syncTimer' = FALSE
  /\ UNCHANGED <<repoVars, gitVars, activation>>
  /\ hist' = [op |-> "stopTracking"]
  /\ UNCHANGED <<clock, recorderVars, strayTimers, cycles, storeVars,
                 remoteAcked, count>>

(* A pending timeout fires and calls syncLoop. *)
TimerFires(stray) ==
  /\ IF stray THEN strayTimers > 0 ELSE syncTimer
  /\ strayTimers' = IF stray THEN strayTimers - 1 ELSE strayTimers
  /\ syncTimer' = IF stray THEN syncTimer ELSE FALSE
  /\ IF isTracking
       THEN BeginCycle /\ count' = [count EXCEPT !.cycles = @ + 1]
       ELSE UNCHANGED <<cycles, queue, count>>
  /\ UNCHANGED <<repoVars, gitVars, activation>>
  /\ hist' = [op |-> "timer", began |-> isTracking]
  /\ UNCHANGED <<clock, lastActivityTime, isTracking, subscribed, storeVars,
                 remoteAcked>>

(* A flush whose loop is left when an insert throws. *)
FlushStepAborting(s, outcome) ==
  LET c == cycles[s]
      log == Head(c.logs)
      left == Tail(c.logs)
  IN
  /\ c.pc = "flush"
  /\ Submit(outcome, log)
  /\ IF outcome = "ok"
       THEN /\ activities' = activities \cup {log}
            /\ summaries' = summaries \cup {SummaryOf(log)}
       ELSE UNCHANGED <<activities, summaries>>
  /\ Continue(s, IF Len(left) > 0 /\ outcome = "ok" THEN [c EXCEPT !.logs = left]
                 ELSE ToDaily(c))
  /\ UNCHANGED <<repoVars, gitVars, activation>>
  /\ hist' = [op |-> "insertActivity", slot |-> s, outcome |-> outcome, log |-> log]
  /\ UNCHANGED <<clock, recorderVars, commitRows, nextCommitId, remoteAcked>>

(* await this.db.insertActivity(log), for the next log of logsToSave *)
FlushStep(s, outcome) ==
  LET c == cycles[s]
      log == Head(c.logs)
      left == Tail(c.logs)
  IN
  /\ c.pc = "flush"
  /\ Submit(outcome, log)
  /\ IF outcome = "ok"
       THEN /\ activities' = activities \cup {log}
            /\ summaries' = summaries \cup {SummaryOf(log)}
       ELSE UNCHANGED <<activities, summaries>>
  /\ Continue(s, IF Len(left) > 0 THEN [c EXCEPT !.logs = left] ELSE ToDaily(c))
  /\ UNCHANGED <<repoVars, gitVars, activation>>
  /\ hist' = [op |-> "insertActivity", slot |-> s, outcome |-> outcome, log |-> log]
  /\ UNCHANGED <<clock, recorderVars, commitRows, nextCommitId, remoteAcked>>

(* await this.db.getDailyAggregatedActivities(30), the filter, and the     *)
(* call of syncDailyStats                                                  *)
GetDailyStep(s, outcome) ==
  LET c == cycles[s]
      dailyStats == getDailyAggregatedActivities(activities, DailyLimit)
      completedDayStats == {stat \in dailyStats : stat.date < c.yesterday}
  IN
  /\ c.pc = "getDaily"
  /\ Charge(outcome)
  /\ IF outcome = "throws" THEN EndCycle(s)
     ELSE IF completedDayStats # {}
       THEN Continue(s, [c EXCEPT !.pc = "syncDaily", !.batch = completedDayStats])
       ELSE Continue(s, ToFiles(c))
  /\ UNCHANGED <<repoVars, gitVars, activation>>
  /\ hist' = [op |-> "getDaily", slot |-> s, outcome |-> outcome,
              sent |-> IF outcome = "ok" THEN completedDayStats ELSE {}]
  /\ UNCHANGED <<clock, recorderVars, storeVars, remoteAcked>>

(* await this.apiClient.syncDailyStats(completedDayStats) *)
SyncDailyStep(s, outcome) ==
  LET c == cycles[s] IN
  /\ c.pc = "syncDaily"
  /\ Charge(outcome)
  /\ remoteAcked' = IF outcome = "success"
                      THEN [remoteAcked EXCEPT !.daily = @ \cup c.batch]
                      ELSE remoteAcked
  /\ IF syncDailyStats(outcome)
       THEN Continue(s, [c EXCEPT !.pc = "delDaily", !.cutoff = DeleteBeforeDate])
       ELSE Continue(s, ToFiles(c))
  /\ UNCHANGED <<repoVars, gitVars, activation>>
  /\ hist' = [op |-> "syncDaily", slot |-> s, outcome |-> outcome]
  /\ UNCHANGED <<clock, recorderVars, storeVars>>

(* await this.db.deleteActivitiesBeforeDate(...) *)
DelDailyStep(s, outcome) ==
  LET c == cycles[s] IN
  /\ c.pc = "delDaily"
  /\ Charge(outcome)
  /\ IF outcome = "throws"
       THEN EndCycle(s) /\ UNCHANGED activities
       ELSE /\ activities' = deleteActivitiesBeforeDate(activities, c.cutoff)
            /\ Continue(s, ToFiles(c))
  /\ UNCHANGED <<repoVars, gitVars, activation>>
  /\ hist' = [op |-> "delDaily", slot |-> s, outcome |-> outcome]
  /\ UNCHANGED <<clock, recorderVars, summaries, commitRows, nextCommitId,
                 remoteAcked>>

(* await this.db.getAggregatedActivities(50) and the call of               *)
(* syncFileActivities                                                      *)
GetFilesStep(s, outcome) ==
  LET c == cycles[s]
      aggregatedActivities == getAggregatedActivities(summaries, FileLimit)
  IN
  /\ c.pc = "getFiles"
  /\ Charge(outcome)
  /\ IF outcome = "throws" THEN EndCycle(s)
     ELSE IF aggregatedActivities # {}
       THEN Continue(s, [c EXCEPT !.pc = "syncFiles", !.batch = aggregatedActivities])
       ELSE Continue(s, ToCommits(c))
  /\ UNCHANGED <<repoVars, gitVars, activation>>
  /\ hist' = [op |-> "getFiles", slot |-> s, outcome |-> outcome,
              sent |-> IF outcome = "ok" THEN aggregatedActivities ELSE {}]
  /\ UNCHANGED <<clock, recorderVars, storeVars, remoteAcked>>

(* await this.apiClient.syncFileActivities(aggregatedActivities) *)
SyncFilesStep(s, outcome) ==
  LET c == cycles[s] IN
  /\ c.pc = "syncFiles"
  /\ Charge(outcome)
  /\ remoteAcked' = IF outcome = "success"
                      THEN [remoteAcked EXCEPT !.files = @ \cup c.batch]
                      ELSE remoteAcked
  /\ IF syncFileActivities(outcome)
       THEN Continue(s, [c EXCEPT !.pc = "delFiles"])
       ELSE Continue(s, ToCommits(c))
  /\ UNCHANGED <<repoVars, gitVars, activation>>
  /\ hist' = [op |-> "syncFiles", slot |-> s, outcome |-> outcome]
  /\ UNCHANGED <<clock, recorderVars, storeVars>>

(* await this.db.deleteAggregatedActivities(aggregatedActivities) *)
DelFilesStep(s, outcome) ==
  LET c == cycles[s] IN
  /\ c.pc = "delFiles"
  /\ Charge(outcome)
  /\ IF outcome = "throws"
       THEN EndCycle(s) /\ UNCHANGED summaries
       ELSE /\ summaries' = deleteAggregatedActivities(summaries, c.batch)
            /\ Continue(s, ToCommits(c))
  /\ UNCHANGED <<repoVars, gitVars, activation>>
  /\ hist' = [op |-> "delFiles", slot |-> s, outcome |-> outcome]
  /\ UNCHANGED <<clock, recorderVars, activities, commitRows, nextCommitId,
                 remoteAcked>>

(* await this.db.getUnsyncedCommits(20) and the call of syncCommits *)
GetCommitsStep(s, outcome) ==
  LET c == cycles[s]
      commits == getUnsyncedCommits(commitRows, CommitLimit)
  IN
  /\ c.pc = "getCommits"
  /\ Charge(outcome)
  /\ IF outcome = "ok" /\ commits # {}
       THEN Continue(s, [c EXCEPT !.pc = "syncCommits", !.batch = commits])
       ELSE EndCycle(s)
  /\ UNCHANGED <<repoVars, gitVars, activation>>
  /\ hist' = [op |-> "getCommits", slot |-> s, outcome |-> outcome,
              sent |-> IF outcome = "ok" THEN commits ELSE {}]
  /\ UNCHANGED <<clock, recorderVars, storeVars, remoteAcked>>

(* await this.apiClient.syncCommits(commits) *)
SyncCommitsStep(s, outcome) ==
  LET c == cycles[s] IN
  /\ c.pc = "syncCommits"
  /\ Charge(outcome)
  /\ remoteAcked' = IF outcome = "success"
                      THEN [remoteAcked EXCEPT !.commits = @ \cup c.batch]
                      ELSE remoteAcked
  /\ IF syncCommits(outcome)
       THEN Continue(s, [c EXCEPT !.pc = "delCommits"])
       ELSE EndCycle(s)
  /\ UNCHANGED <<repoVars, gitVars, activation>>
  /\ hist' = [op |-> "syncCommits", slot |-> s, outcome |-> outcome]
  /\ UNCHANGED <<clock, recorderVars, storeVars>>

(* await this.db.deleteCommits(ids) *)
DelCommitsStep(s, outcome) ==
  LET c == cycles[s]
      ids == {row.id : row \in c.batch}
  IN
  /\ c.pc = "delCommits"
  /\ Charge(outcome)
  /\ commitRows' = IF outcome = "ok" THEN deleteCommits(commitRows, ids)
                    ELSE commitRows
  /\ EndCycle(s)
  /\ UNCHANGED <<repoVars, gitVars, activation>>
  /\ hist' = [op |-> "delCommits", slot |-> s, outcome |-> outcome]
  /\ UNCHANGED <<clock, recorderVars, activities, summaries, nextCommitId,
                 remoteAcked>>

-----------------------------------------------------------------------------
(* The repositories: the user commits or switches branch. *)

Hashes == {"h1", "h2"}
Branches == {"main", "dev", ""}
Null == "null"

RepoChange(root, hash, branch) ==
  /\ count.repo < MaxRepoChanges
  /\ <<hash, branch>> # <<head[root], branchName[root]>>
  /\ head' = [head EXCEPT ![root] = hash]
  /\ branchName' = [branchName EXCEPT ![root] = branch]
  /\ UNCHANGED <<hist, activation>>
  /\ count' = [count EXCEPT !.repo = @ + 1]
  /\ UNCHANGED <<clock, recorderVars, trackerVars, cycles, storeVars,
                 remoteAcked, gitVars>>

-----------------------------------------------------------------------------
(* The repository correlator: GitTracker *)

(* The directories of the host's file system: the workspace folders of    *)
(* the other specifications, which have no subdirectories, and a tree      *)
(* under /w.                                                               *)
DirW == <<"/", "w">>
DirWP == <<"/", "w", "/", "p">>
DirWPQ == <<"/", "w", "/", "p", "/", "q">>
DirWS == <<"/", "w", "/", "s">>
FsDirs == {DirA, DirR, DirD, DirW, DirWP, DirWPQ, DirWS}

(* fs.readdirSync(current), filtered by statSync(full).isDirectory(); it   *)
(* throws for a directory that cannot be read, which the scan ignores.     *)
ChildrenOf(dir, unreadable) ==
  IF dir \in unreadable THEN {}
  ELSE {d \in FsDirs : /\ Len(d) = Len(dir) + 2
                       /\ SubSeq(d, 1, Len(dir)) = dir
                       /\ d[Len(dir) + 1] = Sep}

(* The order in which readdirSync lists the entries. *)
RECURSIVE SeqOf(_)
SeqOf(S) ==
  IF S = {} THEN <<>>
  ELSE LET x == CHOOSE y \in S : TRUE IN <<x>> \o SeqOf(S \ {x})

(* fs.existsSync(gitDir) && fs.statSync(gitDir).isDirectory() *)
HasGitDir(dir, markers) == dir \in markers

(* roots.add(current): a Set keeps the first insertion. *)
AddRoot(roots, dir) ==
  IF \E i \in 1..Len(roots) : roots[i] = dir THEN roots ELSE Append(roots, dir)

(* A scan that records a repository and still looks beneath it. *)
RECURSIVE ScanStackDeep(_, _, _, _)
ScanStackDeep(stack, roots, markers, unreadable) ==
  IF stack = <<>> THEN roots
  ELSE LET current == stack[Len(stack)]
           rest == SubSeq(stack, 1, Len(stack) - 1)
       IN ScanStackDeep(rest \o SeqOf(ChildrenOf(current, unreadable)),
                        IF HasGitDir(current, markers) THEN AddRoot(roots, current)
                        ELSE roots,
                        markers, unreadable)

(* while (stack.length > 0) { const current = stack.pop()!; ... } *)
RECURSIVE ScanStack(_, _, _, _)
ScanStack(stack, roots, markers, unreadable) ==
  IF stack = <<>> THEN roots
  ELSE LET current == stack[Len(stack)]
           rest == SubSeq(stack, 1, Len(stack) - 1)
       IN IF HasGitDir(current, markers)
            THEN ScanStack(rest, AddRoot(roots, current), markers, unreadable)
            ELSE ScanStack(rest \o SeqOf(ChildrenOf(current, unreadable)), roots,
                           markers, unreadable)

(* for (const folder of folders) { const stack = [base]; ... } *)
RECURSIVE ScanFolders(_, _, _, _)
ScanFolders(folders, roots, markers, unreadable) ==
  IF folders = <<>> THEN roots
  ELSE ScanFolders(Tail(folders),
                   ScanStack(<<Head(folders)>>, roots, markers, unreadable),
                   markers, unreadable)

(* findGitRootsInWorkspace on the host of the other specifications, where  *)
(* the directories of GitDirs hold a .git directory.                       *)
findGitRootsInWorkspace(folders) == ScanFolders(folders, <<>>, GitDirs, {})

(* database.insertCommit(data): a new row with the next identifier. *)
insertCommit(rows, id, data) == rows \cup {[data EXCEPT !.id = id]}

(* The GitCommit that trackCommitChange and initializeAllRoots build;      *)
(* `branch || undefined`.                                                  *)
CommitData(root, hash, details, branch) ==
  [id |-> 0, projectPath |-> root, commitHash |-> hash, details |-> details,
   branch |-> IF branch \in {Null, ""} THEN Undefined ELSE branch]

(* getCurrentCommit, getCommitDetails and getBranch: what each returns     *)
(* when its git commands succeed, and null when one of them fails.         *)
getCurrentCommit(root, ok) == IF ok THEN head[root] ELSE Null
getCommitDetails(root, hash, ok) == IF ok THEN "details" ELSE Null
getBranch(root, ok) == IF ok THEN branchName[root] ELSE Null

QueryFault(ok) == IF ok THEN 0 ELSE 1

ChargeQuery(ok) ==
  /\ count.faults + QueryFault(ok) <= MaxFaults
  /\ count' = [count EXCEPT !.faults = @ + QueryFault(ok)]

IdleTrack ==
  [pc |-> "none", root |-> NoPath, newCommit |-> Null, details |-> Null,
   branch |-> Null]

Tracking == {t \in 1..MaxTracks : tracks[t].pc # "none"}
FreeTrack ==
  CHOOSE t \in (1..MaxTracks) \ Tracking : \A u \in (1..MaxTracks) \ Tracking : t <= u

(* this.currentCommit.set(gitRoot, newCommit);                             *)
(* if (branch) this.currentBranch.set(gitRoot, branch)                     *)
SetCache(root, newCommit, branch) ==
  /\ currentCommit' = [currentCommit EXCEPT ![root] = newCommit]
  /\ currentBranch' = IF branch \in {Null, ""} THEN currentBranch
                      ELSE [currentBranch EXCEPT ![root] = branch]

(* trackCommitChange without the comparison with the cached commit. *)
SameCommitIgnored(oldCommit, newCommit) == FALSE

(* if (oldCommit === newCommit) return *)
SameCommit(oldCommit, newCommit) == oldCommit = newCommit

(* A watcher's onDidChange / onDidCreate callback: trackCommitChange(root) *)
(* up to its first await.                                                  *)
WatchFires(root) ==
  /\ root \in watching
  /\ Tracking # 1..MaxTracks
  /\ count.triggers < MaxTriggers
  /\ tracks' = [tracks EXCEPT ![FreeTrack] = [IdleTrack EXCEPT !.pc = "head", !.root = root]]
  /\ UNCHANGED <<hist, activation>>
  /\ count' = [count EXCEPT !.triggers = @ + 1]
  /\ UNCHANGED <<clock, recorderVars, trackerVars, cycles, storeVars, remoteAcked,
                 repoVars, gitRoots, currentCommit, currentBranch, watching, gitInit>>

(* const newCommit = await this.getCurrentCommit(gitRoot), and the two     *)
(* early returns                                                           *)
TrackHeadStep(t, ok) ==
  LET c == tracks[t]
      newCommit == getCurrentCommit(c.root, ok)
      oldCommit == currentCommit[c.root]
  IN
  /\ c.pc = "head"
  /\ ChargeQuery(ok)
  /\ tracks' = [tracks EXCEPT ![t] =
                  IF newCommit = Null \/ SameCommit(oldCommit, newCommit) THEN IdleTrack
                  ELSE [c EXCEPT !.pc = "details", !.newCommit = newCommit]]
  /\ UNCHANGED <<hist, activation>>
  /\ UNCHANGED <<clock, recorderVars, trackerVars, cycles, storeVars, remoteAcked,
                 repoVars, gitRoots, currentCommit, currentBranch, watching, gitInit>>

(* const details = await this.getCommitDetails(gitRoot, newCommit) *)
TrackDetailsStep(t, ok) ==
  LET c == tracks[t] IN
  /\ c.pc = "details"
  /\ ChargeQuery(ok)
  /\ tracks' = [tracks EXCEPT ![t] =
                  [c EXCEPT !.pc = "branch",
                            !.details = getCommitDetails(c.root, c.newCommit, ok)]]
  /\ UNCHANGED <<hist, activation>>
  /\ UNCHANGED <<clock, recorderVars, trackerVars, cycles, storeVars, remoteAcked,
                 repoVars, gitRoots, currentCommit, currentBranch, watching, gitInit>>

(* const branch = await this.getBranch(gitRoot); then, with details, the   *)
(* call of insertCommit, and without, the update of the cache              *)
TrackBranchStep(t, ok) ==
  LET c == tracks[t]
      branch == getBranch(c.root, ok)
  IN
  /\ c.pc = "branch"
  /\ ChargeQuery(ok)
  /\ IF c.details # Null
       THEN /\ tracks' = [tracks EXCEPT ![t] = [c EXCEPT !.pc = "insert", !.branch = branch]]
            /\ UNCHANGED <<currentCommit, currentBranch>>
       ELSE /\ tracks' = [tracks EXCEPT ![t] = IdleTrack]
            /\ SetCache(c.root, c.newCommit, branch)
  /\ UNCHANGED <<hist, activation>>
  /\ UNCHANGED <<clock, recorderVars, trackerVars, cycles, storeVars, remoteAcked,
                 repoVars, gitRoots, watching, gitInit>>

(* await this.database.insertCommit(data), and the update of the cache;    *)
(* when the insert throws, trackCommitChange rejects before the update     *)
TrackInsertStep(t, outcome) ==
  LET c == tracks[t] IN
  /\ c.pc = "insert"
  /\ Charge(outcome)
  /\ tracks' = [tracks EXCEPT ![t] = IdleTrack]
  /\ IF outcome = "ok"
       THEN /\ commitRows' = insertCommit(commitRows, nextCommitId,
                                CommitData(c.root, c.newCommit, c.details, c.branch))
            /\ nextCommitId' = nextCommitId + 1
            /\ SetCache(c.root, c.newCommit, c.branch)
       ELSE UNCHANGED <<commitRows, nextCommitId, currentCommit, currentBranch>>
  /\ UNCHANGED <<hist, activation>>
  /\ UNCHANGED <<clock, recorderVars, trackerVars, cycles, activities, summaries,
                 remoteAcked, repoVars, gitRoots, watching, gitInit>>

(* watchGitChanges up to the first await of initializeAllRoots: the scan   *)
(* of the workspace and the first getCurrentCommit                         *)
IdleInit ==
  [pc |-> "notStarted", idx |-> 0, commit |-> Null, details |-> Null, branch |-> Null]

(* The end of one round of the loop of initializeAllRoots; after the last  *)
(* round watchGitChanges creates a watcher for every root.                 *)
NextRoot ==
  IF gitInit.idx < Len(gitRoots)
    THEN /\ gitInit' = [IdleInit EXCEPT !.pc = "head", !.idx = gitInit.idx + 1]
         /\ UNCHANGED watching
    ELSE /\ gitInit' = [IdleInit EXCEPT !.pc = "done"]
         /\ watching' = {gitRoots[i] : i \in 1..Len(gitRoots)}

(* initializeAllRoots up to its first await. *)
ScanWorkspace(folders) ==
  LET roots == findGitRootsInWorkspace(folders) IN
  /\ gitRoots' = roots
  /\ gitInit' = IF Len(roots) > 0 THEN [IdleInit EXCEPT !.pc = "head", !.idx = 1]
                ELSE [IdleInit EXCEPT !.pc = "done"]

WatchGitChanges(folders) ==
  /\ gitInit.pc = "notStarted"
  /\ ScanWorkspace(folders)
  /\ UNCHANGED <<hist, activation>>
  /\ UNCHANGED <<clock, recorderVars, trackerVars, cycles, storeVars, remoteAcked,
                 repoVars, currentCommit, currentBranch, watching, tracks, count>>

(* const commit = await this.getCurrentCommit(root) *)
InitHeadStep(ok) ==
  LET root == gitRoots[gitInit.idx]
      commit == getCurrentCommit(root, ok)
  IN
  /\ gitInit.pc = "head"
  /\ ChargeQuery(ok)
  /\ IF commit # Null
       THEN /\ currentCommit' = [currentCommit EXCEPT ![root] = commit]
            /\ gitInit' = [gitInit EXCEPT !.pc = "details", !.commit = commit]
            /\ UNCHANGED watching
       ELSE NextRoot /\ UNCHANGED currentCommit
  /\ UNCHANGED <<hist, activation>>
  /\ UNCHANGED <<clock, recorderVars, trackerVars, cycles, storeVars, remoteAcked,
                 repoVars, gitRoots, currentBranch, tracks>>

(* const details = await this.getCommitDetails(root, commit) *)
InitDetailsStep(ok) ==
  LET root == gitRoots[gitInit.idx] IN
  /\ gitInit.pc = "details"
  /\ ChargeQuery(ok)
  /\ gitInit' = [gitInit EXCEPT !.pc = "branch",
                                !.details = getCommitDetails(root, gitInit.commit, ok)]
  /\ UNCHANGED <<hist, activation>>
  /\ UNCHANGED <<clock, recorderVars, trackerVars, cycles, storeVars, remoteAcked,
                 repoVars, gitRoots, currentCommit, currentBranch, watching, tracks>>

(* const branch = await this.getBranch(root), the update of currentBranch  *)
(* and, with details, the call of insertCommit                             *)
InitBranchStep(ok) ==
  LET root == gitRoots[gitInit.idx]
      branch == getBranch(root, ok)
  IN
  /\ gitInit.pc = "branch"
  /\ ChargeQuery(ok)
  /\ currentBranch' = IF branch \in {Null, ""} THEN currentBranch
                      ELSE [currentBranch EXCEPT ![root] = branch]
  /\ IF gitInit.details # Null
       THEN /\ gitInit' = [gitInit EXCEPT !.pc = "insert", !.branch = branch]
            /\ UNCHANGED watching
       ELSE NextRoot
  /\ UNCHANGED <<hist, activation>>
  /\ UNCHANGED <<clock, recorderVars, trackerVars, cycles, storeVars, remoteAcked,
                 repoVars, gitRoots, currentCommit, tracks>>

(* await this.database.insertCommit({...}); when it throws,                *)
(* initializeAllRoots and watchGitChanges reject: no watcher is created    *)
InitInsertStep(outcome) ==
  LET root == gitRoots[gitInit.idx] IN
  /\ gitInit.pc = "insert"
  /\ Charge(outcome)
  /\ IF outcome = "ok"
       THEN /\ commitRows' = insertCommit(commitRows, nextCommitId,
                                CommitData(root, gitInit.commit, gitInit.details, gitInit.branch))
            /\ nextCommitId' = nextCommitId + 1
            /\ NextRoot
       ELSE /\ gitInit' = [IdleInit EXCEPT !.pc = "failed"]
            /\ UNCHANGED <<commitRows, nextCommitId, watching>>
  /\ UNCHANGED <<hist, activation>>
  /\ UNCHANGED <<clock, recorderVars, trackerVars, cycles, activities, summaries,
                 remoteAcked, repoVars, gitRoots, currentCommit, currentBranch, tracks>>

-----------------------------------------------------------------------------
(* The initial state: the objects as constructed, the clock at StartDay,   *)
(* and in the local store what an earlier session left there.              *)

BacklogAges == {1, 2, 7, 8}
BacklogCommits == {2}
FirstCommitId == 1 + Cardinality(BacklogAges)

BacklogRow(age) ==
  [projectPath |-> DirD, filePath |-> FileD, language |-> "typescript",
   timestamp |-> (StartDay - age) * DayMs, duration |-> 0, editor |-> "vscode",
   commitHash |-> Undefined, branch |-> Undefined]

InitObjects(backlog) ==
  /\ clock = StartDay * DayMs
  /\ isTracking = FALSE
  /\ subscribed = FALSE
  /\ queue = <<>>
  /\ lastActivityTime = 0
  /\ syncTimer = FALSE
  /\ strayTimers = 0
  /\ cycles = [s \in Slots |-> IdleCycle]
  /\ activities = {BacklogRow(age) : age \in backlog}
  /\ summaries = {SummaryOf(BacklogRow(age)) : age \in backlog}
  /\ commitRows = {[CommitData(DirA, "h1", "details", "main") EXCEPT !.id = 1] :
                     age \in backlog \cap BacklogCommits}
  /\ nextCommitId = FirstCommitId
  /\ remoteAcked = [daily |-> {}, files |-> {}, commits |-> {}]
  /\ head = [root \in AllRoots |-> "h1"]
  /\ branchName = [root \in AllRoots |-> "main"]
  /\ gitRoots = <<>>
  /\ currentCommit = [root \in AllRoots |-> Undefined]
  /\ currentBranch = [root \in AllRoots |-> Undefined]
  /\ watching = {}
  /\ gitInit = IdleInit
  /\ tracks = [t \in 1..MaxTracks |-> IdleTrack]
  /\ hist = [op |-> "init"]
  /\ count = [accepted |-> 0, queuedAt |-> 0, events |-> 0, ticks |-> 0, starts |-> 0, cycles |-> 0, faults |-> 0,
              repo |-> 0, triggers |-> 0, submitted |-> <<>>]

(* activate() has opened the store and constructed the objects. *)
Activated == [pc |-> "active", db |-> "open", error |-> FALSE]

InitWith(backlog) == InitObjects(backlog) /\ activation = Activated

Init == InitWith(BacklogAges)

-----------------------------------------------------------------------------
(* extension.ts: activate() *)

Inactive == [pc |-> "inactive", db |-> "closed", error |-> FALSE]

(* activate() up to `await db.init()`: the commands are registered and the *)
(* Database is constructed.                                                *)
Activate ==
  /\ activation.pc = "inactive"
  /\ activation' = [activation EXCEPT !.pc = "dbInit"]
  /\ UNCHANGED <<clock, recorderVars, trackerVars, cycles, storeVars, remoteAcked,
                 repoVars, gitVars, hist, count>>

(* A failure of db.init() that is logged while activation goes on. *)
ActivationFailsButStarts ==
  /\ activation' = [pc |-> "active", db |-> "failed", error |-> TRUE]
  /\ ScanWorkspace(WorkspaceFolders)
  /\ BeginTracking
  /\ UNCHANGED <<clock, lastActivityTime, syncTimer, strayTimers, storeVars,
                 remoteAcked, repoVars, currentCommit, currentBranch, watching, tracks>>

(* db.init() threw: the catch block of activate() logs the error and shows *)
(* it with showErrorMessage.  Nothing else is affected.                    *)
ActivationFails ==
  /\ activation' = [pc |-> "failed", db |-> "failed", error |-> TRUE]
  /\ UNCHANGED <<clock, recorderVars, trackerVars, cycles, storeVars, remoteAcked,
                 repoVars, gitVars, hist, count>>

(* db.init() returned: the ApiClient, the StatusBarManager and the         *)
(* GitTracker are constructed, gitTracker.watchGitChanges(context) is      *)
(* called and not awaited, the Tracker is constructed and started.  What   *)
(* follows in activate() reads the API token and touches only the          *)
(* ApiClient and the status bar.                                           *)
ActivationContinues ==
  /\ activation' = [pc |-> "active", db |-> "open", error |-> FALSE]
  /\ ScanWorkspace(WorkspaceFolders)
  /\ BeginTracking
  /\ UNCHANGED <<clock, lastActivityTime, syncTimer, strayTimers, storeVars,
                 remoteAcked, repoVars, currentCommit, currentBranch, watching, tracks>>

(* await db.init() *)
DbInitStep(outcome) ==
  /\ activation.pc = "dbInit"
  /\ IF outcome = "ok" THEN ActivationContinues ELSE ActivationFails

(* deactivate(): db.close(), then tracker.stopTracking(), then the status  *)
(* bar is disposed.  The host disposes context.subscriptions, which hold   *)
(* the watchers of the git roots.                                          *)
Deactivate ==
  /\ activation.pc = "active"
  /\ activation' = [activation EXCEPT !.pc = "deactivated", !.db = "closed"]
  /\ IF isTracking
       THEN /\ isTracking' = FALSE
            /\ subscribed' = FALSE
            /\ syncTimer' = FALSE
       ELSE UNCHANGED <<isTracking, subscribed, syncTimer>>
  /\ watching' = {}
  /\ hist' = [op |-> "deactivate"]
  /\ UNCHANGED <<clock, queue, lastActivityTime, strayTimers, cycles, storeVars,
                 remoteAcked, repoVars, gitRoots, currentCommit, currentBranch,
                 gitInit, tracks, count>>

CycleStep ==
  \E s \in Slots :
    \/ \E o \in StoreOutcomes : FlushStep(s, o)
    \/ \E o \in StoreOutcomes : GetDailyStep(s, o)
    \/ \E o \in RemoteOutcomes : SyncDailyStep(s, o)
    \/ \E o \in StoreOutcomes : DelDailyStep(s, o)
    \/ \E o \in StoreOutcomes : GetFilesStep(s, o)
    \/ \E o \in RemoteOutcomes : SyncFilesStep(s, o)
    \/ \E o \in StoreOutcomes : DelFilesStep(s, o)
    \/ \E o \in StoreOutcomes : GetCommitsStep(s, o)
    \/ \E o \in RemoteOutcomes : SyncCommitsStep(s, o)
    \/ \E o \in StoreOutcomes : DelCommitsStep(s, o)

TrackStep ==
  \E t \in 1..MaxTracks :
    \/ \E ok \in BOOLEAN : TrackHeadStep(t, ok)
    \/ \E ok \in BOOLEAN : TrackDetailsStep(t, ok)
    \/ \E ok \in BOOLEAN : TrackBranchStep(t, ok)
    \/ \E o \in StoreOutcomes : TrackInsertStep(t, o)

GitInitStep ==
  \/ \E ok \in BOOLEAN : InitHeadStep(ok)
  \/ \E ok \in BOOLEAN : InitDetailsStep(ok)
  \/ \E ok \in BOOLEAN : InitBranchStep(ok)
  \/ \E o \in StoreOutcomes : InitInsertStep(o)

(* The sync engine with the recorder that feeds it. *)
Next ==
  \/ StartTracking
  \/ StopTracking
  \/ \E stray \in BOOLEAN : TimerFires(stray)
  \/ CycleStep
  \/ count.events < MaxSyncEvents /\ HandleActivity(FileD)
  \/ count.ticks < MaxSyncTicks /\ Tick(DayMs)

Spec == Init /\ [][Next]_vars

(* One tracking period: the sync engine is started and never stopped. *)
NextRun ==
  \/ StartTracking
  \/ TimerFires(FALSE)
  \/ CycleStep
  \/ count.events < MaxSyncEvents /\ HandleActivity(FileD)
  \/ count.ticks < MaxSyncTicks /\ Tick(DayMs)

SpecRun == Init /\ [][NextRun]_vars

(* One tracking period in which every awaited call returns or throws and  *)
(* every pending timer fires.                                              *)
NextCycles ==
  \/ StartTracking
  \/ TimerFires(FALSE)
  \/ CycleStep
  \/ count.events < MaxSyncEvents /\ HandleActivity(FileD)

SpecRunFair ==
  /\ Init /\ [][NextCycles]_vars
  /\ WF_vars(CycleStep)
  /\ WF_vars(TimerFires(FALSE))

(* The same, with time passing between events so that one event after     *)
(* another is accepted.                                                    *)
NextFlushes ==
  \/ NextCycles
  \/ count.ticks < MaxSyncTicks /\ Tick(debounceInterval)

SpecFlushFair ==
  /\ InitWith({2}) /\ [][NextFlushes]_vars
  /\ WF_vars(CycleStep)
  /\ WF_vars(TimerFires(FALSE))

(* The recorder alone, the clock advancing by gaps around its thresholds.  *)
Gaps == {1999, 2000, 299999, 300000}

NextRecorder ==
  \/ StartTracking
  \/ StopTracking
  \/ \E editor \in {NoEditor, FileD} : HandleActivity(editor)
  \/ \E gap \in Gaps : Tick(gap)

SpecRecorder == InitWith({}) /\ [][NextRecorder]_vars

(* The lookup of the repository root of a path, over roots registered in   *)
(* any order (nested roots, and a root that is a string prefix of another  *)
(* directory's name).                                                      *)
DirAB == <<"/", "a", "/", "b">>
DirAx == <<"/", "a", "b">>
FileAB == <<"/", "a", "/", "b", "/", "f">>
FileAx == <<"/", "a", "b", "/", "x">>
RootPool == {DirA, DirAB, DirAx, DirR}
LookupPaths == {FileAB, FileAx, FileA, FileD, DirA, DirAB}

(* roots.add(current) of the scan, this.gitRoots = new Set(roots): a Set    *)
(* iterates in insertion order.                                            *)
RegisterRoot(root) ==
  /\ Len(gitRoots) < MaxRoots
  /\ \A i \in 1..Len(gitRoots) : gitRoots[i] # root
  /\ count.triggers = 0
  /\ gitRoots' = Append(gitRoots, root)
  /\ UNCHANGED <<clock, recorderVars, trackerVars, cycles, storeVars, remoteAcked,
                 repoVars, currentCommit, currentBranch, watching, gitInit, tracks,
                 hist, count, activation>>

(* A call of getGitRootForPath(fsPath). *)
LookupRoot(fsPath) ==
  /\ count.triggers < MaxLookups
  /\ hist' = [op |-> "getGitRootForPath", fsPath |-> fsPath,
              result |-> getGitRootForPath(fsPath)]
  /\ count' = [count EXCEPT !.triggers = @ + 1]
  /\ UNCHANGED <<clock, recorderVars, trackerVars, cycles, storeVars, remoteAcked,
                 repoVars, gitVars, activation>>

NextRoots ==
  \/ \E root \in RootPool : RegisterRoot(root)
  \/ \E fsPath \in LookupPaths : LookupRoot(fsPath)

SpecRoots == InitWith({}) /\ [][NextRoots]_vars

(* The recorder next to the correlator: files inside a repository, inside *)
(* a plain workspace folder, and outside the workspace are edited while    *)
(* and after the roots are initialized.                                    *)
FileX == <<"/", "x", "/", "f">>
Editors == {FileA, FileD, FileX}

NextProject ==
  \/ StartTracking
  \/ WatchGitChanges(WorkspaceFolders)
  \/ GitInitStep
  \/ \E editor \in Editors : HandleActivity(editor)
  \/ Tick(debounceInterval)

SpecProject == InitWith({}) /\ [][NextProject]_vars

(* Activation, and the components it starts. *)
NextActivate ==
  \/ Activate
  \/ \E o \in StoreOutcomes : DbInitStep(o)
  \/ GitInitStep
  \/ CycleStep
  \/ TimerFires(FALSE)
  \/ count.events < MaxSyncEvents /\ HandleActivity(FileA)

InitActivate == InitObjects({2}) /\ activation = Inactive

SpecActivate == InitActivate /\ [][NextActivate]_vars

(* The commit phase of the sync cycles next to the correlator that        *)
(* inserts the GitCommit rows.  The store holds no activity, so the cycles *)
(* pass through their first phases with the two queries only.              *)
CommitCycleStep ==
  \E s \in Slots :
    \/ \E o \in StoreOutcomes : GetDailyStep(s, o)
    \/ \E o \in StoreOutcomes : GetFilesStep(s, o)
    \/ \E o \in StoreOutcomes : GetCommitsStep(s, o)
    \/ \E o \in RemoteOutcomes : SyncCommitsStep(s, o)
    \/ \E o \in StoreOutcomes : DelCommitsStep(s, o)

NextCommits ==
  \/ StartTracking
  \/ TimerFires(FALSE)
  \/ CommitCycleStep
  \/ WatchGitChanges(<<DirA>>)
  \/ GitInitStep
  \/ WatchFires(DirA)
  \/ TrackStep
  \/ \E hash \in Hashes, branch \in Branches : RepoChange(DirA, hash, branch)

SpecCommits == InitWith({}) /\ [][NextCommits]_vars

(* Root discovery over the tree under /w, for every placement of .git      *)
(* directories and every set of unreadable directories.                    *)
TreeDirs == {DirW, DirWP, DirWPQ, DirWS}

FindRoots(folder, markers, unreadable) ==
  /\ count.triggers < MaxLookups
  /\ hist' = [op |-> "findGitRootsInWorkspace", folder |-> folder,
              markers |-> markers, unreadable |-> unreadable,
              roots |-> ScanFolders(<<folder>>, <<>>, markers, unreadable)]
  /\ count' = [count EXCEPT !.triggers = @ + 1]
  /\ UNCHANGED <<clock, recorderVars, trackerVars, cycles, storeVars, remoteAcked,
                 repoVars, gitVars, activation>>

NextDiscover ==
  \E folder \in {DirW, DirWP}, markers \in SUBSET TreeDirs,
     unreadable \in SUBSET {DirW, DirWP} :
    FindRoots(folder, markers, unreadable)

SpecDiscover == InitWith({}) /\ [][NextDiscover]_vars

(* The repository correlator alone. *)
(* The extension at work, and its deactivation at any moment. *)
NextDeactivate ==
  \/ activation.pc = "active" /\ StartTracking
  \/ TimerFires(FALSE)
  \/ CommitCycleStep
  \/ activation.pc = "active" /\ WatchGitChanges(<<DirA>>)
  \/ GitInitStep
  \/ WatchFires(DirA)
  \/ TrackStep
  \/ \E hash \in Hashes : RepoChange(DirA, hash, "main")
  \/ Deactivate

SpecDeactivate == InitWith({}) /\ [][NextDeactivate]_vars

NextGit ==
  \/ WatchGitChanges(WorkspaceFolders)
  \/ GitInitStep
  \/ \E root \in AllRoots : WatchFires(root)
  \/ TrackStep
  \/ \E hash \in Hashes, branch \in Branches : RepoChange(DirA, hash, branch)

SpecGit == InitWith({}) /\ [][NextGit]_vars

-----------------------------------------------------------------------------
(* Properties of the sync engine (Spec) *)

(* C1: in every reachable state at most one sync cycle (an execution of    *)
(* syncLoop past its isTracking check) is in flight.                       *)
C1_AtMostOneCycleInFlight == Cardinality(InFlight) <= 1

DeletePcs == {"delDaily", "delFiles", "delCommits"}

(* C2: in the file-activity phase the fetched batch is deleted if and only *)
(* if the remote call for it returned success: the answer to               *)
(* syncFileActivities leads to the delete exactly when it is a success,    *)
(* the delete removes exactly the batch, and after any other answer every  *)
(* item of the batch is still in the store for the next cycle to fetch.    *)
C2_FileBatchDeletedIffAcked ==
  [][/\ hist'.op = "syncFiles" =>
          /\ (cycles'[hist'.slot].pc = "delFiles") <=> (hist'.outcome = "success")
          /\ hist'.outcome # "success" =>
                /\ summaries' = summaries
                /\ cycles[hist'.slot].batch \subseteq
                     getAggregatedActivities(summaries', FileLimit)
     /\ hist'.op = "delFiles" /\ hist'.outcome = "ok" =>
          summaries' = summaries \ cycles[hist'.slot].batch]_vars

(* The raw rows that the acknowledged daily aggregates were computed from. *)
AckedRows == UNION {stat.rows : stat \in remoteAcked.daily}

(* C3: in every table a row is deleted only after the remote service       *)
(* acknowledged a batch that contained it (for a raw row: a batch holding  *)
(* the daily aggregate computed from it).                                  *)
C3_DeleteOnlyAcked ==
  [][/\ (activities \ activities') \subseteq AckedRows
     /\ (summaries \ summaries') \subseteq remoteAcked.files
     /\ (commitRows \ commitRows') \subseteq remoteAcked.commits]_vars

(* C4: when the remote service answers one of the three uploads with a     *)
(* non-success response, or the request is rejected, the client reports    *)
(* false and the cycle goes on without the delete of that batch.           *)
C4_NoDeleteWithoutSuccess ==
  [][hist'.op \in {"syncDaily", "syncFiles", "syncCommits"}
       /\ hist'.outcome # "success"
       => /\ cycles'[hist'.slot].pc \notin DeletePcs
          /\ storeVars' = storeVars]_vars

(* C5: once the remote service has acknowledged a batch, no item of it is  *)
(* sent again by a later cycle.                                            *)
C5_NoResendAfterAck ==
  [][/\ hist'.op = "getDaily" => hist'.sent \cap remoteAcked.daily = {}
     /\ hist'.op = "getFiles" => hist'.sent \cap remoteAcked.files = {}
     /\ hist'.op = "getCommits" => hist'.sent \cap remoteAcked.commits = {}]_vars

C15_StoppedIsQuiet ==
  [][~isTracking /\ ~isTracking' =>
       /\ queue' = queue
       /\ ~syncTimer' /\ strayTimers' = 0
       /\ InFlight' \subseteq InFlight]_vars

(* The calls after which a cycle is suspended on an upload or a delete.    *)
IssuedPcs == {"syncDaily", "syncFiles", "syncCommits",
              "delDaily", "delFiles", "delCommits"}

(* C18: a cycle that is in flight when stopTracking is called issues no    *)
(* further remote upload and no further delete while tracking is stopped.  *)
C18_StoppedCycleDoesNotAct ==
  [][\A s \in Slots :
       ~isTracking /\ cycles'[s].pc # cycles[s].pc => cycles'[s].pc \notin IssuedPcs]_vars

PhaseOf(pc) ==
  CASE pc = "flush" -> 1
    [] pc \in {"getDaily", "syncDaily", "delDaily"} -> 2
    [] pc \in {"getFiles", "syncFiles", "delFiles"} -> 3
    [] pc \in {"getCommits", "syncCommits", "delCommits"} -> 4
    [] OTHER -> 0

(* C19: a cycle goes through the queue flush, the daily-stats phase, the   *)
(* file-activity phase and the commit phase in this order, one call at a   *)
(* time; a phase is left for the next one, never skipping one, unless a    *)
(* store call threw; and an upload that reports failure is followed by the *)
(* first call of the next phase.                                           *)
C19_PhasesInOrder ==
  [][\A s \in Slots :
       LET a == cycles[s].pc
           b == cycles'[s].pc
       IN  a # b =>
             /\ a = "none" => b \in {"flush", "getDaily"}
             /\ a # "none" /\ b # "none" =>
                   /\ PhaseOf(b) \in {PhaseOf(a), PhaseOf(a) + 1}
                   /\ PhaseOf(b) = PhaseOf(a) + 1 => b \in {"getDaily", "getFiles", "getCommits"}
             /\ b = "none" /\ PhaseOf(a) < 4 => hist'.outcome = "throws"
             /\ hist'.op = "syncDaily" /\ hist'.slot = s /\ hist'.outcome = "rejected" =>
                   b = "getFiles"
             /\ hist'.op = "syncFiles" /\ hist'.slot = s /\ hist'.outcome = "rejected" =>
                   b = "getCommits"]_vars

(* The daily-stats upload of a cycle was rejected, and the cycle is in its *)
(* file-activity phase.                                                    *)
C19_Witness ==
  /\ hist.op = "syncDaily"
  /\ hist.outcome = "rejected"
  /\ cycles[hist.slot].pc = "getFiles"

(* C20: a store call that throws in the daily-stats, file-activity or      *)
(* commit phase ends the cycle there, tracking stays on and the next cycle *)
(* is scheduled; so, as long as awaited calls return or throw and timers   *)
(* fire, one cycle follows another (up to MaxCycles cycles).               *)
C20_ThrowEndsCycleOnly ==
  /\ [][\A s \in Slots :
          /\ PhaseOf(cycles[s].pc) \in {2, 3, 4}
          /\ cycles'[s] # cycles[s]
          /\ hist'.outcome = "throws"
          => /\ cycles'[s].pc = "none"
             /\ syncTimer'
             /\ isTracking' = isTracking]_vars
  /\ \A k \in 1..(MaxCycles - 1) :
       (isTracking /\ count.cycles = k) ~> (count.cycles = k + 1)

(* A delete threw, the cycle is over and the next one is scheduled. *)
C20_Witness ==
  /\ hist.op = "delDaily"
  /\ hist.outcome = "throws"
  /\ \A s \in Slots : cycles[s].pc = "none"
  /\ syncTimer
  /\ isTracking

-----------------------------------------------------------------------------
(* Properties of the recorder (SpecRecorder) *)

(* A step of handleActivity. *)
Handled == hist'.op = "handleActivity" /\ count'.events = count.events + 1

(* C6: an event whose gap since the last accepted event (the last event    *)
(* that was not debounced, or the last one that was queued) is below the   *)
(* debounce interval is discarded: nothing is queued and lastActivityTime  *)
(* is unchanged.                                                           *)
C6_DebouncedEventDiscarded ==
  [][Handled /\ count.events > 0
       /\ (clock - count.accepted < 2000 \/ clock - count.queuedAt < 2000)
       => queue' = queue /\ lastActivityTime' = lastActivityTime]_vars

(* A burst of debounced events has happened: two events in a row were      *)
(* handled with a gap between 0 and the debounce interval.                 *)
C6_Witness ==
  /\ hist.op = "handleActivity"
  /\ count.events >= 2
  /\ clock - count.accepted > 0
  /\ clock - count.accepted < 2000
  /\ lastActivityTime = count.accepted

(* C7: an accepted (not debounced) event with an active editor queues one  *)
(* record, stamped with the time of the event; its duration is 0 for the   *)
(* first event ever and for a gap g >= 300000 ms since the previous        *)
(* accepted event, and g for 2000 <= g < 300000.                           *)
C7_DurationOfAcceptedEvent ==
  [][Handled /\ hist'.editor # NoEditor
       /\ (count.events = 0 \/ clock - count.accepted >= 2000)
       => LET g == clock - count.accepted
              log == queue'[Len(queue')]
          IN /\ queue' = Append(queue, log)
             /\ log.timestamp = clock
             /\ log.duration = IF count.events = 0 \/ g >= 300000 THEN 0 ELSE g]_vars

(* Records with a duration at and just below the idle threshold, and the   *)
(* first record, are queued.                                               *)
C7_Witness ==
  /\ Len(queue) = 3
  /\ queue[1].duration = 0
  /\ queue[2].duration = 299999
  /\ queue[3].duration = 0
  /\ queue[3].timestamp - queue[2].timestamp = 300000

(* C8: an event that arrives while no editor is active is ignored          *)
(* entirely: nothing is queued and lastActivityTime is unchanged.          *)
C8_NoEditorEventIgnored ==
  [][Handled /\ hist'.editor = NoEditor
       => queue' = queue /\ lastActivityTime' = lastActivityTime]_vars

-----------------------------------------------------------------------------
(* Properties of the repository correlator (SpecGit) *)

(* C9: when trackCommitChange finds the freshly queried HEAD equal to the  *)
(* cached HEAD of its root, it ends there: no GitCommit row is inserted    *)
(* and no root's cached commit or branch changes.                          *)
C9_SameHeadIsNoOp ==
  [][\A t \in 1..MaxTracks :
       /\ tracks[t].pc = "head"
       /\ tracks'[t] # tracks[t]
       /\ head[tracks[t].root] = currentCommit[tracks[t].root]
       => /\ tracks'[t] = IdleTrack
          /\ \A u \in 1..MaxTracks : u # t => tracks'[u] = tracks[u]
          /\ commitRows' = commitRows
          /\ currentCommit' = currentCommit
          /\ currentBranch' = currentBranch]_vars

(* Every trigger so far found HEAD as initialization cached it: the        *)
(* repositories never changed, no query failed, and the invocations ended. *)
C9_Witness ==
  /\ gitInit.pc = "done"
  /\ count.triggers >= 2
  /\ count.repo = 0
  /\ count.faults = 0
  /\ Tracking = {}
  /\ \A root \in AllRoots : currentCommit[root] = head[root]

(* C10: when a query of trackCommitChange fails (HEAD, commit details or   *)
(* branch), the cached commit and branch are left unchanged, so that the   *)
(* next trigger retries and the row of the new HEAD is persisted.          *)
C10_FailedQueryLeavesCache ==
  [][\A t \in 1..MaxTracks :
       /\ tracks[t].pc \in {"branch", "insert"}
       /\ tracks'[t].pc = "none"
       /\ \/ tracks[t].details = Null
          \/ tracks[t].pc = "insert" /\ tracks[t].branch = Null
       => /\ currentCommit' = currentCommit
          /\ currentBranch' = currentBranch]_vars

(* The known roots that cover a path: the path is the root, or the root    *)
(* followed by a separator is the beginning of the path.                   *)
CoveringRoots(fsPath) ==
  {gitRoots[i] : i \in {j \in 1..Len(gitRoots) :
      \/ fsPath = gitRoots[j]
      \/ /\ Len(fsPath) > Len(gitRoots[j])
         /\ \A k \in 1..Len(gitRoots[j]) : fsPath[k] = gitRoots[j][k]
         /\ fsPath[Len(gitRoots[j]) + 1] = "/"}}

(* C13: getGitRootForPath(p) returns the longest known root that covers p  *)
(* and nothing when no root covers it; the result is the same for every    *)
(* order of registration, and a repeated call returns the same root.       *)
C13_LongestCoveringRoot ==
  [][hist'.op = "getGitRootForPath" /\ count'.triggers = count.triggers + 1 =>
       LET p == hist'.fsPath
           covering == CoveringRoots(p)
       IN /\ covering = {} => hist'.result = NoPath
          /\ covering # {} =>
                /\ hist'.result \in covering
                /\ \A r \in covering : Len(r) <= Len(hist'.result)
                /\ \A r \in covering : Len(r) = Len(hist'.result) => r = hist'.result
          /\ hist.op = "getGitRootForPath" /\ hist.fsPath = p =>
                hist'.result = hist.result]_vars

(* With /a registered before /a/b and /ab, a second lookup of /a/b/f       *)
(* returned /a/b.                                                          *)
C13_Witness ==
  /\ gitRoots = <<DirA, DirAB, DirAx>>
  /\ hist.op = "getGitRootForPath"
  /\ hist.fsPath = FileAB
  /\ hist.result = DirAB
  /\ count.triggers = 2

(* The host's workspace folder of a path, "" when it has none. *)
FolderOf(fsPath) ==
  IF \E i \in 1..Len(WorkspaceFolders) :
       SubSeq(fsPath, 1, Len(WorkspaceFolders[i]) + 1) = WorkspaceFolders[i] \o <<"/">>
    THEN CHOOSE f \in {WorkspaceFolders[i] : i \in 1..Len(WorkspaceFolders)} :
           SubSeq(fsPath, 1, Len(f) + 1) = f \o <<"/">>
    ELSE <<>>

(* C14: the record queued for an accepted event on a file that no known    *)
(* repository root covers has the host's workspace folder of the file as   *)
(* projectPath ("" when there is none) and no commitHash and no branch.    *)
C14_UncoveredFileFallsBack ==
  [][Handled /\ Len(queue') = Len(queue) + 1 /\ CoveringRoots(hist'.editor) = {} =>
       LET log == queue'[Len(queue')] IN
         /\ log.filePath = hist'.editor
         /\ log.projectPath = FolderOf(hist'.editor)
         /\ log.commitHash = "undefined"
         /\ log.branch = "undefined"]_vars

(* With /a known and its commit and branch cached, a file of the plain     *)
(* folder /d and a file outside the workspace were recorded.               *)
C14_Witness ==
  /\ gitInit.pc = "done"
  /\ currentCommit[DirA] = "h1" /\ currentBranch[DirA] = "main"
  /\ Len(queue) = 2
  /\ queue[1].filePath = FileD /\ queue[1].projectPath = DirD
  /\ queue[1].commitHash = "undefined" /\ queue[1].branch = "undefined"
  /\ queue[2].filePath = FileX /\ queue[2].projectPath = <<>>

(* C16: when opening the store fails during activation, an error message  *)
(* is shown and nothing is ever started: the tracker is not tracking, has  *)
(* no subscription, no timer and no sync cycle, the correlator has scanned *)
(* nothing and watches nothing, and the store is never written.            *)
C16_StoreFailureIsFatal ==
  /\ [](activation.db = "failed" =>
          /\ activation.error
          /\ ~isTracking /\ ~subscribed /\ ~syncTimer /\ strayTimers = 0
          /\ \A s \in Slots : cycles[s].pc = "none"
          /\ gitInit.pc = "notStarted" /\ gitRoots = <<>> /\ watching = {}
          /\ \A t \in 1..MaxTracks : tracks[t].pc = "none")
  /\ [][activation.db = "failed" =>
          /\ activities' = activities /\ summaries' = summaries
          /\ commitRows' = commitRows /\ queue' = queue]_vars

(* db.init() has thrown. *)
C16_Witness ==
  /\ activation.pc = "failed"
  /\ activation.db = "failed"
  /\ activation.error

(* C17: however the invocations of trackCommitChange for one root          *)
(* interleave, at most one GitCommit row is persisted for a HEAD value of  *)
(* that root.                                                              *)
C17_OneRowPerHead ==
  \A root \in AllRoots, hash \in Hashes :
    Cardinality({row \in commitRows :
                   row.projectPath = root /\ row.commitHash = hash}) <= 1

(* C21: the delete of the commit phase removes exactly the rows the cycle  *)
(* fetched, so a row inserted while the upload was in flight stays in the  *)
(* store; and when the upload was not acknowledged no delete is issued and *)
(* no GitCommit row is removed.                                            *)
C21_ExactlyFetchedCommitsDeleted ==
  [][\A s \in Slots :
       /\ cycles[s].pc = "delCommits" /\ cycles'[s] # cycles[s]
            /\ hist'.outcome = "ok" =>
              commitRows' = commitRows \ cycles[s].batch
       /\ cycles[s].pc = "syncCommits" /\ cycles'[s] # cycles[s]
            /\ hist'.outcome # "success" =>
              /\ cycles'[s].pc # "delCommits"
              /\ commitRows' = commitRows
       /\ commitRows \ commitRows' \subseteq remoteAcked'.commits]_vars

(* C22: the flush takes every record that is in the queue when it starts   *)
(* and submits them to the store one at a time, in order; an insert that   *)
(* throws leaves the rows already inserted in place and is followed by the *)
(* insert of the next record, and after the last record by the daily-stats *)
(* phase.                                                                  *)
C22_FlushGoesOnAfterFailure ==
  [][\A s \in Slots :
       LET c == cycles[s]
           d == cycles'[s]
       IN
       /\ c.pc = "none" /\ d.pc # "none" =>
            /\ queue' = <<>>
            /\ IF queue = <<>> THEN d.pc = "getDaily"
               ELSE d.pc = "flush" /\ d.logs = queue
       /\ c.pc = "flush" /\ d # c =>
            /\ hist'.op = "insertActivity" /\ hist'.log = c.logs[1]
            /\ activities \subseteq activities'
            /\ hist'.outcome = "ok" => hist'.log \in activities'
            /\ IF Len(c.logs) > 1
                 THEN d.pc = "flush" /\ d.logs = SubSeq(c.logs, 2, Len(c.logs))
                 ELSE d.pc = "getDaily"]_vars

(* Of the two records of a flush the first one's insert threw and the      *)
(* second one was inserted; the cycle is in its daily-stats phase.         *)
C22_Witness ==
  /\ hist.op = "insertActivity" /\ hist.outcome = "ok"
  /\ count.events = 2 /\ count.faults = 1
  /\ hist.log \in activities
  /\ hist.log.timestamp = (StartDay + 1) * DayMs
  /\ ~\E r \in activities : r.timestamp = StartDay * DayMs
  /\ cycles[hist.slot].pc = "getDaily"

(* The calls of the remote service a cycle can be suspended on. *)
RemotePcs == {"syncDaily", "syncFiles", "syncCommits"}

(* C23: while a cycle is suspended on a remote call, an arriving event is  *)
(* handled at once (the handler is enabled, it does not wait for the       *)
(* cycle), and an event that is accepted is appended to the queue, the     *)
(* cycle staying where it is.                                              *)
C23_EventsHandledDuringUpload ==
  /\ [](subscribed /\ count.events < MaxSyncEvents
          /\ (\E s \in Slots : cycles[s].pc \in RemotePcs)
        => ENABLED HandleActivity(FileD))
  /\ [][Handled /\ (\E s \in Slots : cycles[s].pc \in RemotePcs)
          /\ (count.events = 0 \/ clock - count.accepted >= 2000)
        => /\ Len(queue') = Len(queue) + 1
           /\ SubSeq(queue', 1, Len(queue)) = queue
           /\ queue'[Len(queue')].timestamp = clock
           /\ cycles' = cycles]_vars

(* Two events, a day apart, were queued while the first cycle has been     *)
(* waiting for the answer to its daily-stats upload.                       *)
C23_Witness ==
  /\ count.cycles = 1
  /\ \E s \in Slots : cycles[s].pc = "syncDaily"
  /\ hist.op = "handleActivity"
  /\ Len(queue) = 2
  /\ queue[2].timestamp = clock
  /\ queue[1].timestamp = clock - DayMs

(* p is d or a directory above d. *)
AtOrAbove(p, d) ==
  \/ p = d
  \/ Len(p) < Len(d) /\ SubSeq(d, 1, Len(p) + 1) = p \o <<"/">>

LogTimes == {StartDay * DayMs + k * debounceInterval : k \in 0..MaxSyncTicks}

(* C25: while tracking is on, awaited calls return or throw and timers     *)
(* fire, a record in the queue is later submitted to the store by the      *)
(* flush of a cycle (as long as the run has a cycle left, MaxCycles being  *)
(* the number of cycles of a run).                                         *)
C25_QueuedIsEventuallySubmitted ==
  \A t \in LogTimes :
    (/\ isTracking
     /\ count.cycles < MaxCycles
     /\ \E i \in 1..Len(queue) : queue[i].timestamp = t)
    ~> (hist.op = "insertActivity" /\ hist.log.timestamp = t)

(* Two records queued while the first cycle was in flight have both been   *)
(* submitted by the flush of the second cycle.                             *)
C25_Witness ==
  /\ count.cycles = 2
  /\ hist.op = "insertActivity"
  /\ hist.log.timestamp = StartDay * DayMs + debounceInterval
  /\ \E r \in activities : r.timestamp = StartDay * DayMs
  /\ queue = <<>>

(* q is p with some records taken from its front. *)
IsSuffix(q, p) ==
  Len(q) <= Len(p) /\ q = SubSeq(p, Len(p) - Len(q) + 1, Len(p))

(* C26: no record is submitted to the store twice; the queue changes only  *)
(* by the append of an accepted record and by a beginning cycle that takes *)
(* all of it, and the records a flush has taken only get fewer, so a       *)
(* record queued during a flush is not part of it and stays in the queue   *)
(* until the next cycle begins.                                            *)
C26_SubmittedOnceAndNotInFlush ==
  /\ [](\A i \in 1..Len(count.submitted), j \in 1..Len(count.submitted) :
          i # j => count.submitted[i] # count.submitted[j])
  /\ [](LET held == [s \in Slots |-> IF cycles[s].pc = "flush" THEN cycles[s].logs ELSE <<>>]
            times(q) == {q[i].timestamp : i \in 1..Len(q)}
            done == {count.submitted[i] : i \in 1..Len(count.submitted)}
        IN /\ Cardinality(times(queue)) = Len(queue)
           /\ times(queue) \cap done = {}
           /\ \A s \in Slots :
                /\ Cardinality(times(held[s])) = Len(held[s])
                /\ times(held[s]) \cap times(queue) = {}
                /\ times(held[s]) \cap done = {}
                /\ \A t \in Slots \ {s} : times(held[s]) \cap times(held[t]) = {})
  /\ [][/\ queue' # queue =>
            \/ /\ Handled
               /\ Len(queue') = Len(queue) + 1
               /\ SubSeq(queue', 1, Len(queue)) = queue
               /\ cycles' = cycles
            \/ /\ queue' = <<>>
               /\ \E s \in Slots : /\ cycles[s].pc = "none"
                                    /\ cycles'[s].pc = "flush"
                                    /\ cycles'[s].logs = queue
        /\ \A s \in Slots :
             /\ cycles[s].pc = "flush" => IsSuffix(cycles'[s].logs, cycles[s].logs)
             /\ cycles[s].pc = "flush" /\ cycles'[s] # cycles[s] =>
                  /\ count'.submitted = Append(count.submitted, cycles[s].logs[1].timestamp)
                  /\ queue' = queue]_vars

(* A record was queued while the flush of the second cycle was waiting for *)
(* its insert; the insert has returned and the record is still queued.     *)
C26_Witness ==
  /\ hist.op = "insertActivity"
  /\ count.cycles = 2
  /\ Len(count.submitted) = 1
  /\ cycles[hist.slot].pc = "getDaily"
  /\ Len(queue) = 1
  /\ queue[1].timestamp > hist.log.timestamp

(* The cache of a root holds branch b; for a repository without a current  *)
(* branch name that is an empty or absent entry.                           *)
CachesBranch(root, b) ==
  IF b = "" THEN currentBranch'[root] \in {"", Undefined}
  ELSE currentBranch'[root] = b

(* C27: when an invocation of trackCommitChange ends and none of its       *)
(* queries has failed, the cached branch of its root is the branch the     *)
(* repository reported: the one getBranch returned, or, when the           *)
(* invocation returned after its query of HEAD, the repository's branch at *)
(* that moment.                                                            *)
C27_CachedBranchIsCurrent ==
  [][\A t \in 1..MaxTracks :
       LET c == tracks[t] IN
       /\ c.pc # "none"
       /\ tracks'[t].pc = "none"
       /\ count'.faults = count.faults
       /\ c.pc \in {"branch", "insert"} => c.details # Null
       /\ c.pc = "insert" => c.branch # Null
       => CachesBranch(c.root, IF c.pc = "insert" THEN c.branch
                                                 ELSE branchName[c.root])]_vars

(* The calls of the store a cycle can be suspended on. *)
StorePcs == {"flush", "getDaily", "delDaily", "getFiles", "delFiles",
             "getCommits", "delCommits"}

(* C28: once deactivate has closed the store, no cycle that is in flight   *)
(* issues a call of the store (an insert of a record, a query of           *)
(* aggregates or commits, a delete), and no commit-change detection that   *)
(* is in flight issues insertCommit.                                       *)
C28_NoStoreCallAfterClose ==
  [][activation.pc = "deactivated" =>
       /\ \A s \in Slots :
            cycles'[s] # cycles[s] => cycles'[s].pc \notin StorePcs
       /\ \A t \in 1..MaxTracks :
            tracks'[t] # tracks[t] => tracks'[t].pc # "insert"]_vars

====
